---- MODULE Spec2Model ----
(***************************************************************************)
(* Model of the backend request pipeline of the AI Flow Visualizer:        *)
(* the sliding-window rate limiter, request validation, the ask-ai and     *)
(* save route handlers with their outbound calls and timers, the           *)
(* translation of failures into HTTP responses, the validation functions   *)
(* on their own, and the connection to the store at startup.               *)
(***************************************************************************)
EXTENDS Integers, Sequences, FiniteSets, TLC

(***************************************************************************)
(* Bounds of the model                                                     *)
(***************************************************************************)
\* number of clock advances in a run of the rate-limiter specification
MaxTicks == 1
\* requests issued by the flooding identity in a run
MaxReqs == 32
\* requests issued by every other identity in a run
MaxOtherReqs == 1
\* latest time, in milliseconds, at which the pipeline takes a new request
MaxArrival == 0
\* largest number of attempts connectDB is called with
MaxRetries == 6
\* longest run of white space put before or after a text
MaxPad == 1
\* pending timers of the front-end's success notification
MaxSuccessTimers == 2

\* client identities (req.ip)
IPs == {"a", "b"}
\* the identity that floods
Flooder == "a"
\* clock advances, in milliseconds
Deltas == {1, 1000, 59999, 60000}

ReqBudget(ip) == IF ip = Flooder THEN MaxReqs ELSE MaxOtherReqs

(***************************************************************************)
(* Program constants                                                       *)
(***************************************************************************)
WINDOW_SIZE == 60 * 1000
MAX_REQUESTS == 30

(***************************************************************************)
(* JavaScript values and strings.  A string is the sequence of its         *)
(* character codes; a value carries its type tag.                          *)
(***************************************************************************)
Str(s) == [t |-> "string", s |-> s, n |-> 0]
Num(n) == [t |-> "number", s |-> <<>>, n |-> n]
Undefined == [t |-> "undefined", s |-> <<>>, n |-> 0]
Null == [t |-> "null", s |-> <<>>, n |-> 0]

\* !v
Falsy(v) ==
  \/ v.t \in {"undefined", "null"}
  \/ v.t = "number" /\ v.n = 0
  \/ v.t = "string" /\ v.s = <<>>

\* the class [\x00-\x08\x0B\x0C\x0E-\x1F\x7F]
ControlChars == (0 .. 8) \cup {11, 12} \cup (14 .. 31) \cup {127}

\* the characters String.prototype.trim removes
WhiteSpace == {9, 10, 11, 12, 13, 32, 160, 5760, 8232, 8233, 8239, 8287,
               12288, 65279} \cup (8192 .. 8202)

SetMin(S) == CHOOSE x \in S : \A y \in S : x <= y

\* index of the first character at or after i that is not white space
\* (Len(s) + 1 if there is none)
RECURSIVE firstKept(_, _)
firstKept(s, i) ==
  IF i > Len(s) THEN i
  ELSE IF s[i] \notin WhiteSpace THEN i
  ELSE firstKept(s, i + 1)

\* index of the last character at or before i that is not white space
\* (0 if there is none)
RECURSIVE lastKept(_, _)
lastKept(s, i) ==
  IF i < 1 THEN i
  ELSE IF s[i] \notin WhiteSpace THEN i
  ELSE lastKept(s, i - 1)

\* String.prototype.trim
trim(s) == SubSeq(s, firstKept(s, 1), lastKept(s, Len(s)))

\* input.replace(/[\x00-\x08\x0B\x0C\x0E-\x1F\x7F]/g, "")
removeControl(s) == SelectSeq(s, LAMBDA c : c \notin ControlChars)

\* sanitizeString without the trim
sanitizeNoTrim(input) ==
  IF input.t # "string" THEN <<>> ELSE removeControl(input.s)

sanitizeString(input) ==
  IF input.t # "string" THEN <<>> ELSE trim(removeControl(input.s))

PROMPT_MIN == 3
PROMPT_MAX == 10000

\* validatePrompt with the minimum length test left out
validatePromptNoMin(prompt) ==
  LET sanitized == sanitizeString(prompt)
  IN  IF Falsy(prompt)
      THEN [isValid |-> FALSE, errors |-> <<"Prompt is required">>,
            sanitized |-> Undefined]
      ELSE IF prompt.t # "string"
      THEN [isValid |-> FALSE, errors |-> <<"Prompt must be a string">>,
            sanitized |-> Undefined]
      ELSE IF Len(sanitized) = 0
      THEN [isValid |-> FALSE, errors |-> <<"Prompt cannot be empty">>,
            sanitized |-> Undefined]
      ELSE IF Len(sanitized) > PROMPT_MAX
      THEN [isValid |-> FALSE,
            errors |-> <<"Prompt is too long (maximum 10,000 characters)">>,
            sanitized |-> Undefined]
      ELSE [isValid |-> TRUE, errors |-> <<>>, sanitized |-> Str(sanitized)]

\* validatePrompt returning its argument as the sanitized value
validatePromptRaw(prompt) ==
  LET sanitized == sanitizeString(prompt)
  IN  IF Falsy(prompt)
      THEN [isValid |-> FALSE, errors |-> <<"Prompt is required">>,
            sanitized |-> Undefined]
      ELSE IF prompt.t # "string"
      THEN [isValid |-> FALSE, errors |-> <<"Prompt must be a string">>,
            sanitized |-> Undefined]
      ELSE IF Len(sanitized) = 0
      THEN [isValid |-> FALSE, errors |-> <<"Prompt cannot be empty">>,
            sanitized |-> Undefined]
      ELSE IF Len(sanitized) < PROMPT_MIN
      THEN [isValid |-> FALSE,
            errors |-> <<"Prompt must be at least 3 characters long">>,
            sanitized |-> Undefined]
      ELSE IF Len(sanitized) > PROMPT_MAX
      THEN [isValid |-> FALSE,
            errors |-> <<"Prompt is too long (maximum 10,000 characters)">>,
            sanitized |-> Undefined]
      ELSE [isValid |-> TRUE, errors |-> <<>>, sanitized |-> prompt]

validatePrompt(prompt) ==
  LET sanitized == sanitizeString(prompt)
  IN  IF Falsy(prompt)
      THEN [isValid |-> FALSE, errors |-> <<"Prompt is required">>,
            sanitized |-> Undefined]
      ELSE IF prompt.t # "string"
      THEN [isValid |-> FALSE, errors |-> <<"Prompt must be a string">>,
            sanitized |-> Undefined]
      ELSE IF Len(sanitized) = 0
      THEN [isValid |-> FALSE, errors |-> <<"Prompt cannot be empty">>,
            sanitized |-> Undefined]
      ELSE IF Len(sanitized) < PROMPT_MIN
      THEN [isValid |-> FALSE,
            errors |-> <<"Prompt must be at least 3 characters long">>,
            sanitized |-> Undefined]
      ELSE IF Len(sanitized) > PROMPT_MAX
      THEN [isValid |-> FALSE,
            errors |-> <<"Prompt is too long (maximum 10,000 characters)">>,
            sanitized |-> Undefined]
      ELSE [isValid |-> TRUE, errors |-> <<>>, sanitized |-> Str(sanitized)]

\* validateSaveData returning at the first invalid field
validateSaveDataShortCircuit(prompt, response) ==
  LET promptValidation == validatePrompt(prompt)
      promptErrors == IF promptValidation.isValid THEN <<>>
                      ELSE promptValidation.errors
      responseErrors ==
        IF ~promptValidation.isValid THEN <<>>
        ELSE IF Falsy(response) THEN <<"Response is required">>
        ELSE IF response.t # "string" THEN <<"Response must be a string">>
        ELSE IF Len(sanitizeString(response)) = 0
             THEN <<"Response cannot be empty">>
        ELSE <<>>
      errors == promptErrors \o responseErrors
  IN  [isValid |-> Len(errors) = 0,
       errors |-> errors,
       sanitizedPrompt |-> IF Falsy(promptValidation.sanitized) THEN Str(<<>>)
                           ELSE promptValidation.sanitized,
       sanitizedResponse |-> IF Falsy(response) THEN Str(<<>>)
                             ELSE Str(sanitizeString(response))]

validateSaveData(prompt, response) ==
  LET promptValidation == validatePrompt(prompt)
      promptErrors == IF promptValidation.isValid THEN <<>>
                      ELSE promptValidation.errors
      responseErrors ==
        IF Falsy(response) THEN <<"Response is required">>
        ELSE IF response.t # "string" THEN <<"Response must be a string">>
        ELSE IF Len(sanitizeString(response)) = 0
             THEN <<"Response cannot be empty">>
        ELSE <<>>
      errors == promptErrors \o responseErrors
  IN  [isValid |-> Len(errors) = 0,
       errors |-> errors,
       sanitizedPrompt |-> IF Falsy(promptValidation.sanitized) THEN Str(<<>>)
                           ELSE promptValidation.sanitized,
       sanitizedResponse |-> IF Falsy(response) THEN Str(<<>>)
                             ELSE Str(sanitizeString(response))]

(***************************************************************************)
(* Texts of error messages.  A text is the sequence of its pieces; the     *)
(* pieces are chosen so that every pattern the code searches for is one.   *)
(***************************************************************************)
\* message.includes(pattern)
includes(message, pattern) == \E i \in DOMAIN message : message[i] = pattern

(***************************************************************************)
(* The completion client (OpenRouterClient)                                *)
(***************************************************************************)
\* What the network delivers to _makeRequest: an HTTP response (status,
\* body text, and what JSON.parse makes of it), a socket error, or the
\* socket's idle timeout.
HttpResult(status, parsable, raw, errorMessage, hasChoices, choices) ==
  [kind |-> "http", status |-> status, parsable |-> parsable, raw |-> raw,
   errorMessage |-> errorMessage, hasChoices |-> hasChoices,
   choices |-> choices, message |-> <<>>]
SocketError(message) ==
  [kind |-> "error", status |-> 0, parsable |-> FALSE, raw |-> <<>>,
   errorMessage |-> <<>>, hasChoices |-> FALSE, choices |-> <<>>,
   message |-> message]
SocketTimeout ==
  [kind |-> "timeout", status |-> 0, parsable |-> FALSE, raw |-> <<>>,
   errorMessage |-> <<>>, hasChoices |-> FALSE, choices |-> <<>>,
   message |-> <<>>]

Resolved(value) == [ok |-> TRUE, value |-> value, message |-> <<>>]
Rejected(message) == [ok |-> FALSE, value |-> Undefined, message |-> message]

\* _makeRequest: the promise's outcome for what the network delivered
makeRequest(up) ==
  IF up.kind = "error" THEN Rejected(<<"Request failed: ">> \o up.message)
  ELSE IF up.kind = "timeout" THEN Rejected(<<"Request timeout">>)
  ELSE IF ~up.parsable
  THEN Rejected(<<"Failed to parse API response: ", "Unexpected token",
                  ". Response: ">> \o up.raw)
  ELSE IF up.status >= 200 /\ up.status < 300 THEN Resolved(Undefined)
  ELSE Rejected(IF up.errorMessage # <<>> THEN up.errorMessage
                ELSE <<"HTTP ", ToString(up.status), ": ">> \o up.raw)

\* the catch block of chatCompletion: the message of the error it throws
rethrown(message) ==
  IF includes(message, "401") THEN <<"Invalid OpenRouter API key">>
  ELSE IF includes(message, "429")
  THEN <<"Rate limit exceeded", ". Please try again later">>
  ELSE IF includes(message, "500")
  THEN <<"OpenRouter API service unavailable">>
  ELSE IF includes(message, "ENOTFOUND") \/ includes(message, "ECONNREFUSED")
  THEN <<"Unable to connect", " to OpenRouter API">>
  ELSE message

\* chatCompletion returning the content whatever it is
chatCompletionUnchecked(up) ==
  LET r == makeRequest(up)
  IN  IF ~r.ok THEN Rejected(rethrown(r.message))
      ELSE IF ~up.hasChoices \/ Len(up.choices) = 0 THEN Resolved(Undefined)
      ELSE Resolved(up.choices[1])

\* chatCompletion from the await of _makeRequest on
chatCompletion(up) ==
  LET r == makeRequest(up)
  IN  IF ~r.ok THEN Rejected(rethrown(r.message))
      ELSE IF ~up.hasChoices \/ Len(up.choices) = 0
      THEN Rejected(rethrown(
             <<"No response choices received from OpenRouter API">>))
      ELSE IF Falsy(up.choices[1])
      THEN Rejected(rethrown(
             <<"Invalid response format from OpenRouter API">>))
      ELSE Resolved(up.choices[1])

\* chatCompletion's test of its argument, before any request is made
promptRejectedLocally(prompt) ==
  Falsy(prompt) \/ prompt.t # "string" \/ Len(trim(prompt.s)) = 0

(***************************************************************************)
(* Responses                                                               *)
(***************************************************************************)
VARIABLE
  nodeEnv     \* process.env.NODE_ENV

NodeEnvs == {"development", "production"}

\* error.details of a response body: left out of the body when undefined
NoDetails == [present |-> FALSE, text |-> <<>>]
Details(text) == [present |-> TRUE, text |-> text]

NoResponse ==
  [sent |-> 0, status |-> 0, success |-> "absent", code |-> "none",
   message |-> <<>>, response |-> Undefined, id |-> Undefined,
   details |-> NoDetails]

ErrorResponse(status, code, message) ==
  [sent |-> 1, status |-> status, success |-> "false", code |-> code,
   message |-> message, response |-> Undefined, id |-> Undefined,
   details |-> NoDetails]

\* res.json({ response: aiResponse })
AskAiSuccess(aiResponse) ==
  [sent |-> 1, status |-> 200, success |-> "absent", code |-> "none",
   message |-> <<>>, response |-> aiResponse, id |-> Undefined,
   details |-> NoDetails]

\* res.status(201).json({ success: true, id: savedDoc._id.toString(), ... })
SaveSuccess(id) ==
  [sent |-> 1, status |-> 201, success |-> "true", code |-> "none",
   message |-> <<"Prompt-response pair saved successfully">>,
   response |-> Undefined, id |-> id, details |-> NoDetails]

\* res.json({ status: "OK", timestamp, uptime, memory }) of GET /health; the
\* status of the body is kept in message
HealthResponse ==
  [sent |-> 1, status |-> 200, success |-> "absent", code |-> "none",
   message |-> <<"OK">>, response |-> Undefined, id |-> Undefined,
   details |-> NoDetails]

\* the catch block of the ask-ai route without the connection/timeout case
askAiFailureNoUnavailable(message) ==
  IF includes(message, "Invalid OpenRouter API key")
  THEN ErrorResponse(401, "AI_AUTH_ERROR",
                     <<"AI service authentication failed">>)
  ELSE IF includes(message, "Rate limit exceeded")
  THEN ErrorResponse(429, "AI_RATE_LIMIT",
         <<"AI service rate limit exceeded. Please try again later">>)
  ELSE ErrorResponse(500, "AI_PROCESSING_ERROR",
                     <<"Failed to process AI request">>)

\* the catch block of the ask-ai route without the missing-credential case
askAiFailureNoConfig(message) ==
  IF includes(message, "Invalid OpenRouter API key")
  THEN ErrorResponse(401, "AI_AUTH_ERROR",
                     <<"AI service authentication failed">>)
  ELSE IF includes(message, "Rate limit exceeded")
  THEN ErrorResponse(429, "AI_RATE_LIMIT",
         <<"AI service rate limit exceeded. Please try again later">>)
  ELSE IF \/ includes(message, "Unable to connect")
          \/ includes(message, "AI request timeout")
  THEN ErrorResponse(503, "AI_SERVICE_UNAVAILABLE",
                     <<"AI service temporarily unavailable">>)
  ELSE ErrorResponse(500, "AI_PROCESSING_ERROR",
                     <<"Failed to process AI request">>)

\* the catch block of the ask-ai route
askAiFailure(message) ==
  IF includes(message, "Invalid OpenRouter API key")
  THEN ErrorResponse(401, "AI_AUTH_ERROR",
                     <<"AI service authentication failed">>)
  ELSE IF includes(message, "Rate limit exceeded")
  THEN ErrorResponse(429, "AI_RATE_LIMIT",
         <<"AI service rate limit exceeded. Please try again later">>)
  ELSE IF \/ includes(message, "Unable to connect")
          \/ includes(message, "AI request timeout")
  THEN ErrorResponse(503, "AI_SERVICE_UNAVAILABLE",
                     <<"AI service temporarily unavailable">>)
  ELSE IF includes(message,
            "OPENROUTER_API_KEY environment variable is required")
  THEN ErrorResponse(500, "AI_CONFIG_ERROR",
                     <<"AI service configuration error">>)
  ELSE ErrorResponse(500, "AI_PROCESSING_ERROR",
                     <<"Failed to process AI request">>)

(***************************************************************************)
(* globalErrorHandler                                                      *)
(***************************************************************************)
\* an error passed to next(): its name, whether it is a SyntaxError, its
\* status and statusCode (0: undefined), whether it has a body property,
\* its code (number or text; 0 and "none": undefined) and its message
MiddlewareError(name, syntax, status, body, code, codeText, message) ==
  [name |-> name, syntax |-> syntax, status |-> status, statusCode |-> status,
   body |-> body, code |-> code, codeText |-> codeText, message |-> message]

NoError == MiddlewareError("none", FALSE, 0, FALSE, 0, "none", <<>>)

\* globalErrorHandler(err, req, res, next), headers not sent
globalErrorHandler(err) ==
  IF err.name = "ValidationError"
  THEN [ErrorResponse(400, "VALIDATION_ERROR", <<"Validation failed">>)
          EXCEPT !.details = IF nodeEnv = "development"
                             THEN Details(err.message)
                             ELSE NoDetails]
  ELSE IF err.name = "CastError"
  THEN ErrorResponse(400, "CAST_ERROR", <<"Invalid data format">>)
  ELSE IF err.syntax /\ err.status = 400 /\ err.body
  THEN ErrorResponse(400, "JSON_PARSE_ERROR", <<"Invalid JSON format">>)
  ELSE IF \/ err.name = "MongoNetworkError"
          \/ err.name = "MongooseError"
          \/ includes(err.message, "buffering timed out")
          \/ includes(err.message, "connection")
          \/ includes(err.message, "ECONNREFUSED")
  THEN ErrorResponse(503, "DATABASE_UNAVAILABLE",
                     <<"Database temporarily unavailable">>)
  ELSE IF err.code = 11000
  THEN ErrorResponse(409, "DUPLICATE_ENTRY", <<"Duplicate entry detected">>)
  ELSE IF err.statusCode # 0 /\ (err.code # 0 \/ err.codeText # "none")
  THEN ErrorResponse(err.statusCode,
                     IF err.codeText # "none" THEN err.codeText
                     ELSE ToString(err.code),
                     err.message)
  ELSE ErrorResponse(500, "INTERNAL_ERROR", <<"Internal server error">>)

(***************************************************************************)
(* The store (mongoose document save)                                      *)
(***************************************************************************)
Saved == [ok |-> TRUE, name |-> "none", code |-> 0, message |-> <<>>]
SaveError(name, code, message) ==
  [ok |-> FALSE, name |-> name, code |-> code, message |-> message]

\* savedDoc._id.toString()
idToString(id) == Str(id)

\* the catch block of the save route without the connection case
saveFailureNoUnavailable(error) ==
  IF error.name = "ValidationError"
  THEN ErrorResponse(400, "VALIDATION_ERROR", <<"Validation failed">>)
  ELSE IF error.code = 11000
  THEN ErrorResponse(409, "DUPLICATE_ENTRY", <<"Duplicate entry detected">>)
  ELSE ErrorResponse(500, "DATABASE_ERROR",
                     <<"Failed to save prompt-response pair">>)

\* the catch block of the save route sending nothing for an error it does
\* not recognise
saveFailureNoGeneric(error) ==
  IF error.name = "ValidationError"
  THEN ErrorResponse(400, "VALIDATION_ERROR", <<"Validation failed">>)
  ELSE IF \/ includes(error.message, "buffering timed out")
          \/ includes(error.message, "connection")
          \/ includes(error.message, "ECONNREFUSED")
          \/ includes(error.message, "Database save timeout")
          \/ error.name = "MongooseError"
          \/ includes(error.message, "MongooseError")
          \/ includes(error.message, "MongoNetworkError")
          \/ includes(error.message, "topology")
  THEN ErrorResponse(503, "DATABASE_UNAVAILABLE",
                     <<"Database temporarily unavailable">>)
  ELSE IF error.code = 11000
  THEN ErrorResponse(409, "DUPLICATE_ENTRY", <<"Duplicate entry detected">>)
  ELSE NoResponse

\* the catch block of the save route attaching the error's message as
\* details whatever NODE_ENV is
saveFailureDetailed(error) ==
  IF error.name = "ValidationError"
  THEN [ErrorResponse(400, "VALIDATION_ERROR", <<"Validation failed">>)
          EXCEPT !.details = Details(error.message)]
  ELSE IF \/ includes(error.message, "buffering timed out")
          \/ includes(error.message, "connection")
          \/ includes(error.message, "ECONNREFUSED")
          \/ includes(error.message, "Database save timeout")
          \/ error.name = "MongooseError"
          \/ includes(error.message, "MongooseError")
          \/ includes(error.message, "MongoNetworkError")
          \/ includes(error.message, "topology")
  THEN ErrorResponse(503, "DATABASE_UNAVAILABLE",
                     <<"Database temporarily unavailable">>)
  ELSE IF error.code = 11000
  THEN ErrorResponse(409, "DUPLICATE_ENTRY", <<"Duplicate entry detected">>)
  ELSE ErrorResponse(500, "DATABASE_ERROR",
                     <<"Failed to save prompt-response pair">>)

\* the catch block of the save route
saveFailure(error) ==
  IF error.name = "ValidationError"
  THEN [ErrorResponse(400, "VALIDATION_ERROR", <<"Validation failed">>)
          EXCEPT !.details = IF nodeEnv = "development"
                             THEN Details(error.message)
                             ELSE NoDetails]
  ELSE IF \/ includes(error.message, "buffering timed out")
          \/ includes(error.message, "connection")
          \/ includes(error.message, "ECONNREFUSED")
          \/ includes(error.message, "Database save timeout")
          \/ error.name = "MongooseError"
          \/ includes(error.message, "MongooseError")
          \/ includes(error.message, "MongoNetworkError")
          \/ includes(error.message, "topology")
  THEN ErrorResponse(503, "DATABASE_UNAVAILABLE",
                     <<"Database temporarily unavailable">>)
  ELSE IF error.code = 11000
  THEN ErrorResponse(409, "DUPLICATE_ENTRY", <<"Duplicate entry detected">>)
  ELSE ErrorResponse(500, "DATABASE_ERROR",
                     <<"Failed to save prompt-response pair">>)

VARIABLES
  requests,   \* rateLimiter's Map: ip -> sequence of timestamps
  now,        \* Date.now(), milliseconds
  rl,         \* outcome of the latest run of the rateLimiter middleware
  ticks,      \* clock advances so far
  nreq,       \* history: requests of each identity that reached the limiter
  firstAt,    \* history: time of the first request of each identity (-1: none)
  lastAt,     \* history: time of the latest request of each identity (-1: none)
  accepted,   \* history: the times of the accepted requests of each identity
  rejections, \* history: the rejections of each identity since its latest
              \* accepted request, each with its time and its reset value
  apiKey,     \* process.env.OPENROUTER_API_KEY is set
  pc,         \* where the request in hand is in the middleware chain
  req,        \* the request in hand
  res,        \* its response
  timers,     \* its pending timers
  outbound,   \* its outbound operation (completion call or store write)
  escaped,    \* an exception left a route handler uncaught
  path,       \* history: the stages the request in hand went through
  db,         \* the call of connectDB made at startup
  call,       \* a call of a validation function and what it returned
  currentPrompt,   \* App: useState("")
  currentResponse, \* App: useState("")
  isLoading,       \* App: useState(false)
  isSaving,        \* App: useState(false)
  uiError,         \* App: the error state, useState(null)
  saveSuccess,     \* App: useState(false)
  resultNode,      \* App: data.loading and data.content of node result-1
  askAiFetch,      \* App: the fetch of handleRunFlow in flight
  saveFetch,       \* App: the fetch of handleSave in flight
  successTimers,   \* App: pending setTimeout(() => setSaveSuccess(false))
  producedFor,     \* history: the prompt the run that set currentResponse sent
  leftOver,        \* history: a Run Flow failed since currentResponse was set
  savedPair        \* history: the latest pair sent to POST /api/save

rlVars == <<requests, rl, nreq, firstAt, lastAt, accepted, rejections>>
reqVars == <<pc, req, res, timers, outbound, escaped, path>>
\* what no request changes
\* the state of the front-end
uiVars == <<currentPrompt, currentResponse, isLoading, isSaving, uiError,
            saveSuccess, resultNode, askAiFetch, saveFetch, successTimers,
            producedFor, leftOver, savedPair>>
envVars == <<apiKey, nodeEnv, db, call, uiVars>>
vars == <<requests, now, rl, ticks, nreq, firstAt, lastAt, accepted,
          rejections, apiKey, nodeEnv,
          pc, req, res, timers, outbound, escaped, path, db, call, uiVars>>

NoDecision == [ip |-> "none", passed |-> FALSE, status |-> 0, code |-> "none",
               resetTime |-> 0, retained |-> 0, before |-> 0, at |-> 0,
               prevAt |-> -1, pending |-> {}]

\* Math.ceil(x / d) for an integer x and d > 0
Ceil(x, d) == (x + d - 1) \div d

\* requests.has(ip) ? requests.get(ip) : []
ipRequestsOf(reqs, ip) == IF ip \in DOMAIN reqs THEN reqs[ip] ELSE <<>>

\* the filter keeping a timestamp that lies exactly on the window start
recentRequestsInclusive(ipRequests, windowStart) ==
  SelectSeq(ipRequests, LAMBDA timestamp : timestamp >= windowStart)

\* the filter dropping a timestamp one millisecond early
recentRequestsEarly(ipRequests, windowStart) ==
  SelectSeq(ipRequests, LAMBDA timestamp : timestamp > windowStart + 1)

\* ipRequests.filter((timestamp) => timestamp > windowStart)
recentRequestsOf(ipRequests, windowStart) ==
  SelectSeq(ipRequests, LAMBDA timestamp : timestamp > windowStart)

\* the reset time rounded down
resetTimeFloor(recentRequests, t) ==
  (recentRequests[1] + WINDOW_SIZE - t) \div 1000

\* Math.ceil((recentRequests[0] + WINDOW_SIZE - now) / 1000)
resetTimeOf(recentRequests, t) == Ceil(recentRequests[1] + WINDOW_SIZE - t, 1000)

\* the limit test off by one
limitExceededOffByOne(recentRequests) == Len(recentRequests) > MAX_REQUESTS

\* recentRequests.length >= MAX_REQUESTS
limitExceeded(recentRequests) == Len(recentRequests) >= MAX_REQUESTS

\* Map.set
MapSet(m, k, v) == [x \in DOMAIN m \cup {k} |-> IF x = k THEN v ELSE m[x]]

\* the middleware recording the time of a request it rejects
rateLimiterRecording(ip) ==
  LET windowStart == now - WINDOW_SIZE
      ipRequests == ipRequestsOf(requests, ip)
      recentRequests == recentRequestsOf(ipRequests, windowStart)
  IN  /\ requests' = MapSet(requests, ip, Append(recentRequests, now))
      /\ IF limitExceeded(recentRequests)
         THEN rl' = [ip |-> ip, passed |-> FALSE, status |-> 429,
                     code |-> "RATE_LIMIT_EXCEEDED",
                     resetTime |-> resetTimeOf(recentRequests, now),
                     retained |-> Len(recentRequests),
                     before |-> Len(ipRequests), at |-> now,
                     prevAt |-> lastAt[ip],
                     pending |-> rejections[ip]]
         ELSE rl' = [ip |-> ip, passed |-> TRUE, status |-> 0,
                     code |-> "none", resetTime |-> 0,
                     retained |-> Len(recentRequests),
                     before |-> Len(ipRequests), at |-> now,
                     prevAt |-> lastAt[ip],
                     pending |-> rejections[ip]]
      /\ nreq' = [nreq EXCEPT ![ip] = @ + 1]
      /\ firstAt' = [firstAt EXCEPT ![ip] = IF @ = -1 THEN now ELSE @]
      /\ lastAt' = [lastAt EXCEPT ![ip] = now]
      /\ accepted' = IF limitExceeded(recentRequests) THEN accepted
                     ELSE [accepted EXCEPT ![ip] = Append(@, now)]
      /\ rejections' =
           IF limitExceeded(recentRequests)
           THEN [rejections EXCEPT ![ip] =
                   @ \cup {[at |-> now,
                            r |-> resetTimeOf(recentRequests, now)]}]
           ELSE [rejections EXCEPT ![ip] = {}]

\* The rateLimiter middleware run for a request of identity ip.
rateLimiter(ip) ==
  LET windowStart == now - WINDOW_SIZE
      ipRequests == ipRequestsOf(requests, ip)
      recentRequests == recentRequestsOf(ipRequests, windowStart)
  IN  /\ IF limitExceeded(recentRequests)
         THEN /\ requests' = MapSet(requests, ip, recentRequests)
              /\ rl' = [ip |-> ip, passed |-> FALSE, status |-> 429,
                        code |-> "RATE_LIMIT_EXCEEDED",
                        resetTime |-> resetTimeOf(recentRequests, now),
                        retained |-> Len(recentRequests),
                        before |-> Len(ipRequests), at |-> now,
                        prevAt |-> lastAt[ip],
                        pending |-> rejections[ip]]
         ELSE /\ requests' = MapSet(requests, ip, Append(recentRequests, now))
              /\ rl' = [ip |-> ip, passed |-> TRUE, status |-> 0,
                        code |-> "none", resetTime |-> 0,
                        retained |-> Len(recentRequests),
                        before |-> Len(ipRequests), at |-> now,
                        prevAt |-> lastAt[ip],
                        pending |-> rejections[ip]]
      /\ nreq' = [nreq EXCEPT ![ip] = @ + 1]
      /\ firstAt' = [firstAt EXCEPT ![ip] = IF @ = -1 THEN now ELSE @]
      /\ lastAt' = [lastAt EXCEPT ![ip] = now]
      /\ accepted' = IF limitExceeded(recentRequests) THEN accepted
                     ELSE [accepted EXCEPT ![ip] = Append(@, now)]
      /\ rejections' =
           IF limitExceeded(recentRequests)
           THEN [rejections EXCEPT ![ip] =
                   @ \cup {[at |-> now,
                            r |-> resetTimeOf(recentRequests, now)]}]
           ELSE [rejections EXCEPT ![ip] = {}]

(***************************************************************************)
(* Requests, timers, outbound operations                                   *)
(***************************************************************************)
ASK_AI == "POST /api/ask-ai"
SAVE == "POST /api/save"
Routes == {ASK_AI, SAVE}
\* app.get("/health"), outside /api
HEALTH == "GET /health"
\* requests no route matches, under /api and outside it
UNKNOWN_API == "GET /api/nonexistent"
UNKNOWN == "GET /nonexistent"
Unmatched == {UNKNOWN_API, UNKNOWN}

\* the path is under the mount point of app.use("/api", ...)
underApi(route) == route \in Routes \cup {UNKNOWN_API}

\* requestTimeout(30000)
REQUEST_TIMEOUT_MS == 30000
\* a timer of the ask-ai route longer than the one of requestTimeout
AI_TIMEOUT_LATE == 25000 + 10000
\* the timer the ask-ai route races the completion call against
AI_TIMEOUT_MS == 25000
\* the timer the save route races the store write against
SAVE_TIMEOUT_MS == 10000
\* req.setTimeout(30000)
SOCKET_TIMEOUT_MS == 30000

NoRequest == [route |-> "none", ip |-> "none", json |-> FALSE,
              prompt |-> Undefined, response |-> Undefined,
              bodyError |-> NoError]

\* what express.json({ limit: "10mb", strict: true }) passes to next() for a
\* body it cannot take: the SyntaxError of the parser, whose message quotes
\* the body, and the error of a body over the limit
BodyErrors ==
  {MiddlewareError("SyntaxError", TRUE, 400, TRUE, 0, "none",
                   <<"Unexpected token ", "}", " in JSON at position 11">>),
   MiddlewareError("SyntaxError", TRUE, 400, TRUE, 0, "none",
                   <<"Unexpected end of JSON input">>),
   MiddlewareError("PayloadTooLargeError", FALSE, 413, FALSE, 0, "none",
                   <<"request entity too large">>)}

NoResult == [kind |-> "none"]

\* an outbound operation: what it carries, whether it is in flight, what it
\* ended in, whether it ended after the handler had stopped waiting, and
\* how many times it was issued for the request
NoOutbound == [kind |-> "none", state |-> "none", prompt |-> Undefined,
               response |-> Undefined, late |-> FALSE, result |-> NoResult,
               calls |-> 0]

\* timers are created in this order within a request
TimerOrder(kind) ==
  CASE kind = "request" -> 1 [] kind = "socket" -> 2 [] kind = "handler" -> 3

Timer(kind, at) == [kind |-> kind, at |-> at]

\* no JavaScript is running: the middleware chain and the handler run to
\* their await or their end before the event loop takes the next callback
LoopFree == pc \in {"awaiting", "done"}

\* the event loop runs the timer that expires first, and of two that expire
\* together the one created first
IsNextTimer(t) ==
  /\ LoopFree
  /\ t \in timers
  /\ \A u \in timers :
       \/ t.at < u.at
       \/ t.at = u.at /\ TimerOrder(t.kind) <= TimerOrder(u.kind)

TimersOf(kind) == {t \in timers : t.kind = kind}

\* _id of a new document, as its hexadecimal text
DocId == <<54, 53, 102, 49>>

\* request bodies
PromptSamples ==
  {Undefined, Num(5), Str(<<>>), Str(<<112>>),
   Str(<<1, 1, 1>>), Str(<<32, 97, 98, 1, 99, 32>>)}
ResponseSamples == {Undefined, Str(<<>>), Str(<<114>>), Str(<<32, 114, 1, 32>>)}

\* what the completion API may answer
ContentSamples == {Str(<<52>>), Str(<<>>), Undefined}
ErrorBodySamples ==
  {<<>>, <<"No auth credentials found">>,
   <<"Incorrect API key provided: ", "sk-or-v1-0123">>,
   <<"Rate limit exceeded", ": free-models-per-day">>,
   <<"Provider returned error">>}
ErrorStatuses == {401, 429, 500, 503}
UpstreamResults ==
  {HttpResult(200, TRUE, <<"{...}">>, <<>>, TRUE, <<c>>) : c \in ContentSamples}
  \cup {HttpResult(200, TRUE, <<"{}">>, <<>>, FALSE, <<>>),
        HttpResult(200, TRUE, <<"{...}">>, <<>>, TRUE, <<>>)}
  \cup {HttpResult(st, TRUE, <<"{...}">>, m, FALSE, <<>>) :
          st \in ErrorStatuses, m \in ErrorBodySamples}
  \cup {HttpResult(502, FALSE, <<"<html>", "Bad Gateway", "</html>">>, <<>>,
                   FALSE, <<>>)}
  \cup {SocketError(<<"getaddrinfo ", "ENOTFOUND", " openrouter.ai">>),
        SocketError(<<"connect ", "ECONNREFUSED", " 104.18.2.115:443">>),
        SocketError(<<"socket hang up">>), SocketError(<<>>)}

\* what the store write may end in
StoreResults ==
  {Saved,
   SaveError("MongoNetworkError", 0,
             <<"connect ", "ECONNREFUSED", " 127.0.0.1:27017">>),
   SaveError("MongooseError", 0,
             <<"Operation promptresponses.insertOne() ",
               "buffering timed out", " after 10000ms">>),
   SaveError("MongoNetworkTimeoutError", 0,
             <<"connection", " 3 to 127.0.0.1:27017 timed out">>),
   SaveError("MongoServerSelectionError", 0,
             <<"Server selection timed out after 5000 ms">>),
   SaveError("ValidationError", 0,
             <<"PromptResponse validation failed: prompt: Cast to string ",
               "failed">>),
   SaveError("MongoServerError", 11000, <<"E11000 duplicate key error">>),
   SaveError("MongoServerError", 0, <<"not primary">>),
   SaveError("Error", 0, <<>>),
   SaveError("TypeError", 0,
             <<"Cannot read properties of undefined (reading '_id')">>)}

\* the error of a write buffered until mongoose's buffer timeout, there
\* being no connection
BufferingTimedOut ==
  SaveError("MongooseError", 0,
            <<"Operation promptresponses.insertOne() ",
              "buffering timed out", " after 10000ms">>)

\* what the store write may end in after the startup call d of connectDB:
\* without a connection the write is buffered and never sent
storeResultsOf(d) ==
  IF d.pc = "returned" THEN StoreResults ELSE {BufferingTimedOut}

(***************************************************************************)
(* Startup: connectDB(retries, delay) of config/database.js                *)
(***************************************************************************)
\* connectDB = async (retries = 5, delay = 5000)
DEFAULT_RETRIES == 5
DEFAULT_DELAY == 5000

\* delays, in milliseconds, connectDB is called with
RetryDelays == {0, 1000, DEFAULT_DELAY}

\* A call of connectDB: its arguments, the loop variable i, where it is
\* ("called", "connecting": awaiting mongoose.connect, "waiting": awaiting the
\* delay, "returned": resolved with the connection, "failed": rejected,
\* "undefined": resolved without a value), the calls of mongoose.connect and
\* the delays so far, the error it rejected with, and whether that
\* rejection found a handler.
ConnectCall(retries, delay) ==
  [retries |-> retries, delay |-> delay, i |-> 0, pc |-> "called",
   attempts |-> 0, waits |-> 0, waited |-> 0, error |-> <<>>,
   handled |-> TRUE]

\* i === retries - 1, off by one
isLastAttemptLate(d) == d.i = d.retries

\* i === retries - 1
isLastAttempt(d) == d.i = d.retries - 1

\* the test of the for loop and the call of mongoose.connect in its body
loopTest(d) ==
  IF d.i < d.retries
  THEN [d EXCEPT !.pc = "connecting", !.attempts = @ + 1]
  ELSE [d EXCEPT !.pc = "undefined"]

\* connectDB().catch(...) in server.js: the rejection is handled
startupCatch(d) == [d EXCEPT !.handled = TRUE]

\* the calls of connectDB() made by server.js, once settled
StartupConnected ==
  [ConnectCall(DEFAULT_RETRIES, DEFAULT_DELAY) EXCEPT
     !.pc = "returned", !.attempts = 1]
StartupFailed ==
  [ConnectCall(DEFAULT_RETRIES, DEFAULT_DELAY) EXCEPT
     !.pc = "failed", !.i = DEFAULT_RETRIES - 1, !.attempts = DEFAULT_RETRIES,
     !.waits = DEFAULT_RETRIES - 1,
     !.waited = (DEFAULT_RETRIES - 1) * DEFAULT_DELAY,
     !.error = <<"Database connection failed">>]
StartupOutcomes == {StartupConnected, StartupFailed}

\* no validation function has been called
NoCall == [fn |-> "none", prompt |-> Undefined, response |-> Undefined,
           done |-> FALSE, result |-> NoResult]

\* the server before its first request
\* the front-end as it is mounted
NoFetch == [state |-> "none", prompt |-> Undefined, response |-> Undefined]
NoPair == [sent |-> FALSE, prompt |-> Undefined, response |-> Undefined,
           producedFor |-> Undefined, leftOver |-> FALSE]

InitApp ==
  /\ currentPrompt = Str(<<>>)
  /\ currentResponse = Str(<<>>)
  /\ isLoading = FALSE
  /\ isSaving = FALSE
  /\ uiError = "null"
  /\ saveSuccess = FALSE
  /\ resultNode = [loading |-> FALSE, content |-> Str(<<>>)]
  /\ askAiFetch = NoFetch
  /\ saveFetch = NoFetch
  /\ successTimers = 0
  /\ producedFor = Undefined
  /\ leftOver = FALSE
  /\ savedPair = NoPair

InitServer ==
  /\ InitApp
  /\ requests = [x \in {} |-> <<>>]
  /\ now = 0
  /\ rl = NoDecision
  /\ ticks = 0
  /\ nreq = [ip \in IPs |-> 0]
  /\ firstAt = [ip \in IPs |-> -1]
  /\ lastAt = [ip \in IPs |-> -1]
  /\ accepted = [ip \in IPs |-> <<>>]
  /\ rejections = [ip \in IPs |-> {}]
  /\ apiKey \in BOOLEAN
  /\ pc = "idle"
  /\ req = NoRequest
  /\ res = NoResponse
  /\ timers = {}
  /\ outbound = NoOutbound
  /\ escaped = FALSE
  /\ path = <<>>

\* the server after connectDB() has settled
Init ==
  /\ InitServer
  /\ nodeEnv \in NodeEnvs
  /\ db \in StartupOutcomes
  /\ call = NoCall

\* The clock advances by d milliseconds.
Tick(d) ==
  /\ ticks < MaxTicks
  /\ now' = now + d
  /\ ticks' = ticks + 1
  /\ UNCHANGED <<rlVars, envVars, reqVars>>

\* A request of identity ip to a path under /api reaches the limiter.
ApiRequest(ip) ==
  /\ nreq[ip] < ReqBudget(ip)
  /\ rateLimiter(ip)
  /\ UNCHANGED <<now, ticks, envVars, reqVars>>

NextRL ==
  \/ \E d \in Deltas : Tick(d)
  \/ \E ip \in IPs : ApiRequest(ip)

InitRL == Init /\ apiKey /\ nodeEnv = "production" /\ db = StartupConnected

SpecRL == InitRL /\ [][NextRL]_vars

(***************************************************************************)
(* Validation specification: one call of sanitizeString, validatePrompt    *)
(* or validateSaveData with an argument drawn from the texts below         *)
(***************************************************************************)
\* the character c repeated n times
Repeat(c, n) == [i \in 1 .. n |-> c]

\* runs of white space: spaces, line feeds
Pads == {Repeat(w, k) : w \in {32, 10}, k \in 0 .. MaxPad}

\* lengths around the two limits of validatePrompt
BodyLens == {0, 1, 2, 3, 4, PROMPT_MAX - 1, PROMPT_MAX, PROMPT_MAX + 1}

\* texts without control characters: a run of the letter a, padded
PlainTexts ==
  {lead \o Repeat(97, n) \o trail :
     lead \in Pads, n \in BodyLens, trail \in Pads}
  \cup {<<97, 32, 98>>, <<97, 9, 32, 98, 160>>}

\* texts with control characters
ControlTexts ==
  {<<1>>, <<1, 1, 1>>, <<32, 1, 32, 97>>, <<11, 97, 98, 99, 12>>,
   <<97, 1, 98, 99>>, <<97, 127, 98>>, <<32, 97, 98, 1, 99, 32>>,
   <<1, 32, 97, 98, 99>>, <<97, 98, 99, 32, 31>>}

\* arguments of sanitizeString and validatePrompt
PromptArgs ==
  {Undefined, Null, Num(0), Num(5)}
  \cup {Str(t) : t \in PlainTexts \cup ControlTexts}

\* second arguments of validateSaveData
ResponseArgs ==
  {Undefined, Num(5), Str(<<>>), Str(<<1>>), Str(<<32>>), Str(<<114>>),
   Str(<<32, 114, 1, 32>>)}

ValidationCall(fn, prompt, response) ==
  [fn |-> fn, prompt |-> prompt, response |-> response, done |-> FALSE,
   result |-> NoResult]

InitV ==
  /\ InitServer
  /\ apiKey
  /\ nodeEnv = "production"
  /\ db = StartupConnected
  /\ call \in {ValidationCall("sanitizeString", p, Undefined) :
                  p \in PromptArgs}
             \cup {ValidationCall("validatePrompt", p, Undefined) :
                      p \in PromptArgs}
             \cup {ValidationCall("validateSaveData", p, r) :
                      p \in PromptArgs, r \in ResponseArgs}

CallSanitizeString ==
  /\ call.fn = "sanitizeString"
  /\ ~call.done
  /\ call' = [call EXCEPT !.done = TRUE,
                          !.result = [value |-> sanitizeString(call.prompt)]]
  /\ UNCHANGED <<rlVars, now, ticks, apiKey, nodeEnv, db, reqVars, uiVars>>

CallValidatePrompt ==
  /\ call.fn = "validatePrompt"
  /\ ~call.done
  /\ call' = [call EXCEPT !.done = TRUE,
                          !.result = validatePrompt(call.prompt)]
  /\ UNCHANGED <<rlVars, now, ticks, apiKey, nodeEnv, db, reqVars, uiVars>>

CallValidateSaveData ==
  /\ call.fn = "validateSaveData"
  /\ ~call.done
  /\ call' = [call EXCEPT
                !.done = TRUE,
                !.result = validateSaveData(call.prompt, call.response)]
  /\ UNCHANGED <<rlVars, now, ticks, apiKey, nodeEnv, db, reqVars, uiVars>>

NextV ==
  \/ CallSanitizeString
  \/ CallValidatePrompt
  \/ CallValidateSaveData

SpecV == InitV /\ [][NextV]_vars

(***************************************************************************)
(* Startup specification: one call of connectDB                            *)
(***************************************************************************)
InitDB ==
  /\ InitServer
  /\ apiKey
  /\ nodeEnv = "production"
  /\ call = NoCall
  /\ db \in {ConnectCall(retries, delay) :
               retries \in 0 .. MaxRetries, delay \in RetryDelays}

\* connectDB is entered: the first test of the loop
ConnectEnter ==
  /\ db.pc = "called"
  /\ db' = loopTest(db)
  /\ UNCHANGED <<rlVars, now, ticks, apiKey, nodeEnv, call, reqVars, uiVars>>

\* mongoose.connect resolves: return conn
ConnectResolves ==
  /\ db.pc = "connecting"
  /\ db' = [db EXCEPT !.pc = "returned"]
  /\ UNCHANGED <<rlVars, now, ticks, apiKey, nodeEnv, call, reqVars, uiVars>>

\* mongoose.connect rejects: the catch block of the loop body
ConnectRejects ==
  /\ db.pc = "connecting"
  /\ db' = IF isLastAttempt(db)
           THEN startupCatch([db EXCEPT
                  !.pc = "failed", !.handled = FALSE,
                  !.error = <<"Database connection failed">>])
           ELSE [db EXCEPT !.pc = "waiting", !.waits = @ + 1]
  /\ UNCHANGED <<rlVars, now, ticks, apiKey, nodeEnv, call, reqVars, uiVars>>

\* the delay timer expires: i++ and the next test of the loop
DelayExpires ==
  /\ db.pc = "waiting"
  /\ db' = loopTest([db EXCEPT !.i = @ + 1, !.waited = @ + db.delay])
  /\ UNCHANGED <<rlVars, now, ticks, apiKey, nodeEnv, call, reqVars, uiVars>>

NextDB ==
  \/ ConnectEnter
  \/ ConnectResolves
  \/ ConnectRejects
  \/ DelayExpires

\* mongoose.connect settles (serverSelectionTimeoutMS) and timers expire
SpecDB == InitDB /\ [][NextDB]_vars /\ WF_vars(NextDB)

(***************************************************************************)
(* The front-end (App): the user edits the prompt, clicks Run Flow and     *)
(* Save, dismisses notifications; fetches settle; timers expire            *)
(***************************************************************************)
\* sanitizeInput of the front-end
sanitizeInput(input) ==
  IF input.t # "string" THEN <<>> ELSE trim(removeControl(input.s))

\* validatePrompt of the front-end
validatePromptApp(prompt) ==
  IF Falsy(prompt)
  THEN [isValid |-> FALSE, errors |-> <<"Prompt is required">>]
  ELSE IF prompt.t # "string"
  THEN [isValid |-> FALSE, errors |-> <<"Prompt must be text">>]
  ELSE IF Len(trim(prompt.s)) = 0
  THEN [isValid |-> FALSE,
        errors |-> <<"Prompt cannot be empty or contain only spaces">>]
  ELSE IF Len(trim(prompt.s)) > 10000
  THEN [isValid |-> FALSE,
        errors |-> <<"Prompt is too long (maximum 10,000 characters)">>]
  ELSE IF Len(trim(prompt.s)) < 3
  THEN [isValid |-> FALSE,
        errors |-> <<"Prompt must be at least 3 characters long">>]
  ELSE [isValid |-> TRUE, errors |-> <<>>]

\* validatePromptResponsePair
validatePromptResponsePair(prompt, response) ==
  IF ~validatePromptApp(prompt).isValid THEN validatePromptApp(prompt)
  ELSE IF Falsy(response)
  THEN [isValid |-> FALSE, errors |-> <<"Response is required to save">>]
  ELSE IF response.t # "string"
  THEN [isValid |-> FALSE, errors |-> <<"Response must be text">>]
  ELSE IF Len(trim(response.s)) = 0
  THEN [isValid |-> FALSE, errors |-> <<"Response cannot be empty">>]
  ELSE [isValid |-> TRUE, errors |-> <<>>]

\* value.trim() of a text
trimmed(v) == Str(trim(v.s))

\* what the user types into the textarea
Typed ==
  {Str(<<>>), Str(<<97, 98>>), Str(<<97, 98, 99>>), Str(<<120, 1, 121, 122>>)}

\* how the fetch of handleRunFlow ends: with { response } of a 200, with a
\* 200 without response, with an error body, aborted after 30 s, or with
\* no connection
Answers == {Str(<<52>>), Str(<<55>>)}
RunOutcomes ==
  {[kind |-> "ok", response |-> a, message |-> "none"] : a \in Answers}
  \cup {[kind |-> "ok", response |-> Undefined, message |-> "none"],
        [kind |-> "notOk", response |-> Undefined,
         message |-> "AI service temporarily unavailable"],
        [kind |-> "abort", response |-> Undefined, message |-> "none"],
        [kind |-> "network", response |-> Undefined,
         message |-> "Failed to fetch"]}

\* how the fetch of handleSave ends
SaveOutcomes ==
  {[kind |-> "ok", message |-> "none"],
   [kind |-> "notOk", message |-> "Database temporarily unavailable"],
   [kind |-> "abort", message |-> "none"],
   [kind |-> "network", message |-> "Failed to fetch"]}

\* everything but the front-end
serverVars == <<rlVars, now, ticks, apiKey, nodeEnv, db, call, reqVars>>

\* handleInputChange(value)
HandleInputChange(value) ==
  /\ currentPrompt' = Str(sanitizeInput(value))
  /\ uiError' = "null"
  /\ UNCHANGED <<currentResponse, isLoading, isSaving, saveSuccess,
                 resultNode, askAiFetch, saveFetch, successTimers,
                 producedFor, leftOver, savedPair, serverVars>>

\* handleRunFlow up to its await; the button is disabled while isLoading or
\* !currentPrompt.trim()
HandleRunFlow ==
  /\ ~isLoading
  /\ trim(currentPrompt.s) # <<>>
  /\ LET validation == validatePromptApp(currentPrompt)
     IN  IF ~validation.isValid
         THEN /\ uiError' = validation.errors[1]
              /\ UNCHANGED <<isLoading, resultNode, askAiFetch>>
         ELSE /\ isLoading' = TRUE
              /\ uiError' = "null"
              /\ resultNode' = [loading |-> TRUE, content |-> Str(<<>>)]
              /\ askAiFetch' = [state |-> "inflight",
                                prompt |-> trimmed(currentPrompt),
                                response |-> Undefined]
  /\ UNCHANGED <<currentPrompt, currentResponse, isSaving, saveSuccess,
                 saveFetch, successTimers, producedFor, leftOver, savedPair,
                 serverVars>>

\* handleRunFlow from its await on
RunFlowSettles(outcome) ==
  /\ askAiFetch.state = "inflight"
  /\ IF outcome.kind = "ok" /\ ~Falsy(outcome.response)
     THEN /\ currentResponse' = outcome.response
          /\ resultNode' = [loading |-> FALSE, content |-> outcome.response]
          /\ producedFor' = askAiFetch.prompt
          /\ leftOver' = FALSE
          /\ uiError' = uiError
     ELSE /\ uiError' =
               IF outcome.kind = "ok"
               THEN "Invalid response format from server"
               ELSE IF outcome.kind = "abort"
               THEN "Request timed out. Please try again."
               ELSE IF outcome.kind = "network"
               THEN "Unable to connect to the server. Please check your connection and try again."
               ELSE outcome.message
          /\ resultNode' = [loading |-> FALSE, content |-> Str(<<>>)]
          /\ leftOver' = (leftOver \/ ~Falsy(currentResponse))
          /\ UNCHANGED <<currentResponse, producedFor>>
  /\ isLoading' = FALSE
  /\ askAiFetch' = NoFetch
  /\ UNCHANGED <<currentPrompt, isSaving, saveSuccess, saveFetch,
                 successTimers, savedPair, serverVars>>

\* handleSave up to its await; the button is disabled while isSaving,
\* !currentPrompt.trim() or !currentResponse.trim()
HandleSave ==
  /\ ~isSaving
  /\ trim(currentPrompt.s) # <<>>
  /\ trim(currentResponse.s) # <<>>
  /\ successTimers < MaxSuccessTimers
  /\ LET validation == validatePromptResponsePair(currentPrompt,
                                                  currentResponse)
     IN  IF ~validation.isValid
         THEN /\ uiError' = validation.errors[1]
              /\ UNCHANGED <<isSaving, saveSuccess, saveFetch, savedPair>>
         ELSE /\ isSaving' = TRUE
              /\ uiError' = "null"
              /\ saveSuccess' = FALSE
              /\ saveFetch' = [state |-> "inflight",
                               prompt |-> trimmed(currentPrompt),
                               response |-> trimmed(currentResponse)]
              /\ savedPair' = [sent |-> TRUE,
                               prompt |-> trimmed(currentPrompt),
                               response |-> trimmed(currentResponse),
                               producedFor |-> producedFor,
                               leftOver |-> leftOver]
  /\ UNCHANGED <<currentPrompt, currentResponse, isLoading, resultNode,
                 askAiFetch, successTimers, producedFor, leftOver,
                 serverVars>>

\* handleSave from its await on
SaveFetchSettles(outcome) ==
  /\ saveFetch.state = "inflight"
  /\ IF outcome.kind = "ok"
     THEN /\ saveSuccess' = TRUE
          /\ successTimers' = successTimers + 1
          /\ uiError' = uiError
     ELSE /\ uiError' =
               IF outcome.kind = "abort"
               THEN "Save request timed out. Please try again."
               ELSE IF outcome.kind = "network"
               THEN "Unable to connect to the server. Please check your connection and try again."
               ELSE outcome.message
          /\ UNCHANGED <<saveSuccess, successTimers>>
  /\ isSaving' = FALSE
  /\ saveFetch' = NoFetch
  /\ UNCHANGED <<currentPrompt, currentResponse, isLoading, resultNode,
                 askAiFetch, producedFor, leftOver, savedPair, serverVars>>

\* setTimeout(() => setSaveSuccess(false), 5000) expires
SuccessTimerFires ==
  /\ successTimers > 0
  /\ successTimers' = successTimers - 1
  /\ saveSuccess' = FALSE
  /\ UNCHANGED <<currentPrompt, currentResponse, isLoading, isSaving, uiError,
                 resultNode, askAiFetch, saveFetch, producedFor, leftOver,
                 savedPair, serverVars>>

\* handleDismissError, of the ErrorDisplay shown while there is an error
HandleDismissError ==
  /\ uiError # "null"
  /\ uiError' = "null"
  /\ UNCHANGED <<currentPrompt, currentResponse, isLoading, isSaving,
                 saveSuccess, resultNode, askAiFetch, saveFetch,
                 successTimers, producedFor, leftOver, savedPair, serverVars>>

\* handleDismissSuccess, of the SuccessNotification shown while saveSuccess
HandleDismissSuccess ==
  /\ saveSuccess
  /\ saveSuccess' = FALSE
  /\ UNCHANGED <<currentPrompt, currentResponse, isLoading, isSaving, uiError,
                 resultNode, askAiFetch, saveFetch, successTimers,
                 producedFor, leftOver, savedPair, serverVars>>

NextUI ==
  \/ \E value \in Typed : HandleInputChange(value)
  \/ HandleRunFlow
  \/ \E outcome \in RunOutcomes : RunFlowSettles(outcome)
  \/ HandleSave
  \/ \E outcome \in SaveOutcomes : SaveFetchSettles(outcome)
  \/ SuccessTimerFires
  \/ HandleDismissError
  \/ HandleDismissSuccess

InitUI == Init /\ apiKey /\ nodeEnv = "production" /\ db = StartupConnected

SpecUI == InitUI /\ [][NextUI]_vars

(***************************************************************************)
(* The request pipeline of server.js: one request at a time goes through   *)
(* rateLimiter, requestTimeout, validateRequest and its route handler.     *)
(***************************************************************************)
\* A request arrives.
Receive(route, ip, json, prompt, response) ==
  /\ pc = "idle"
  /\ now <= MaxArrival
  /\ nreq[ip] < ReqBudget(ip)
  /\ req' = [route |-> route, ip |-> ip, json |-> json, prompt |-> prompt,
             response |-> response, bodyError |-> NoError]
  /\ pc' = IF underApi(route) THEN "rateLimiter" ELSE "requestTimeout"
  /\ UNCHANGED <<rlVars, now, ticks, envVars, res, timers, outbound, escaped,
                 path>>

\* A request arrives with a body express.json refuses: the error goes to the
\* error-handling middleware, past everything mounted in between.
ReceiveMalformed(route, ip, err) ==
  /\ pc = "idle"
  /\ now <= MaxArrival
  /\ req' = [route |-> route, ip |-> ip, json |-> TRUE, prompt |-> Undefined,
             response |-> Undefined, bodyError |-> err]
  /\ pc' = "globalErrorHandler"
  /\ path' = <<"express.json">>
  /\ UNCHANGED <<rlVars, now, ticks, envVars, res, timers, outbound, escaped>>

\* app.use(globalErrorHandler)
GlobalErrorHandler ==
  /\ pc = "globalErrorHandler"
  /\ res' = globalErrorHandler(req.bodyError)
  /\ pc' = "done"
  /\ path' = Append(path, "globalErrorHandler")
  /\ UNCHANGED <<rlVars, now, ticks, envVars, req, timers, outbound, escaped>>

\* app.use("/api", rateLimiter)
RateLimiter ==
  /\ pc = "rateLimiter"
  /\ rateLimiter(req.ip)
  /\ path' = Append(path, "rateLimiter")
  /\ IF rl'.passed
     THEN pc' = "requestTimeout" /\ res' = res
     ELSE /\ pc' = "done"
          /\ res' = ErrorResponse(429, rl'.code,
                      <<"Too many requests. Try again in ",
                        ToString(rl'.resetTime), " seconds">>)
  /\ UNCHANGED <<now, ticks, envVars, req, timers, outbound, escaped>>

\* app.use(requestTimeout(30000))
RequestTimeout ==
  /\ pc = "requestTimeout"
  /\ timers' = timers \cup {Timer("request", now + REQUEST_TIMEOUT_MS)}
  /\ pc' = IF req.route \in Routes THEN "validateRequest" ELSE "handler"
  /\ path' = Append(path, "requestTimeout")
  /\ UNCHANGED <<rlVars, now, ticks, envVars, req, res, outbound, escaped>>

requiredFields(route) ==
  IF route = ASK_AI THEN <<"prompt">> ELSE <<"prompt", "response">>

\* field in req.body
fieldIn(field, r) ==
  IF field = "prompt" THEN r.prompt.t # "undefined"
  ELSE r.response.t # "undefined"

\* validateRequest(requiredFields)
ValidateRequest ==
  /\ pc = "validateRequest"
  /\ path' = Append(path, "validateRequest")
  /\ LET fields == requiredFields(req.route)
         missing == {i \in DOMAIN fields : ~fieldIn(fields[i], req)}
     IN  IF ~req.json
         THEN /\ res' = ErrorResponse(400, "INVALID_CONTENT_TYPE",
                          <<"Content-Type must be application/json">>)
              /\ pc' = "done"
         ELSE IF missing # {}
         THEN /\ res' = ErrorResponse(400, "MISSING_REQUIRED_FIELD",
                          <<"Missing required field: ",
                            fields[SetMin(missing)]>>)
              /\ pc' = "done"
         ELSE res' = res /\ pc' = "handler"
  /\ UNCHANGED <<rlVars, now, ticks, envVars, req, timers, outbound, escaped>>

\* A route handler writes a response: res.json throws once headers are sent,
\* and the exception leaves the handler.
HandlerSend(r) ==
  IF res.sent = 0
  THEN res' = r /\ escaped' = escaped
  ELSE res' = res /\ escaped' = TRUE

\* app.use(notFoundHandler)
NotFoundHandler ==
  /\ pc = "handler"
  /\ req.route \in Unmatched
  /\ HandlerSend(ErrorResponse(404, "ROUTE_NOT_FOUND", <<"Route not found">>))
  /\ pc' = "done"
  /\ path' = Append(path, "notFoundHandler")
  /\ UNCHANGED <<rlVars, now, ticks, envVars, req, timers, outbound>>

\* app.get("/health")
HealthHandler ==
  /\ pc = "handler"
  /\ req.route = HEALTH
  /\ HandlerSend(HealthResponse)
  /\ pc' = "done"
  /\ path' = Append(path, "health")
  /\ UNCHANGED <<rlVars, now, ticks, envVars, req, timers, outbound>>

\* router.post("/ask-ai") up to its await
AskAiHandler ==
  /\ pc = "handler"
  /\ req.route = ASK_AI
  /\ LET validation == validatePrompt(req.prompt)
     IN  path' = IF validation.isValid
                 THEN path \o <<"validatePrompt", "OpenRouterClient">>
                 ELSE Append(path, "validatePrompt")
  /\ LET validation == validatePrompt(req.prompt)
     IN  IF ~validation.isValid
         THEN /\ HandlerSend(ErrorResponse(400, "INVALID_PROMPT",
                               <<validation.errors[1]>>))
              /\ pc' = "done"
              /\ UNCHANGED <<timers, outbound>>
         ELSE IF ~apiKey
         THEN /\ HandlerSend(askAiFailure(
                   <<"OPENROUTER_API_KEY environment variable is required">>))
              /\ pc' = "done"
              /\ UNCHANGED <<timers, outbound>>
         ELSE IF promptRejectedLocally(validation.sanitized)
         THEN /\ HandlerSend(askAiFailure(
                   <<"Prompt is required and must be a non-empty string">>))
              /\ pc' = "done"
              /\ timers' = timers \cup {Timer("handler", now + AI_TIMEOUT_MS)}
              /\ UNCHANGED outbound
         ELSE /\ outbound' = [kind |-> "ai", state |-> "inflight",
                              prompt |-> Str(trim(validation.sanitized.s)),
                              response |-> Undefined, late |-> FALSE,
                              result |-> NoResult, calls |-> 1]
              /\ timers' = timers \cup
                   {Timer("socket", now + SOCKET_TIMEOUT_MS),
                    Timer("handler", now + AI_TIMEOUT_MS)}
              /\ pc' = "awaiting"
              /\ UNCHANGED <<res, escaped>>
  /\ UNCHANGED <<rlVars, now, ticks, envVars, req>>

\* router.post("/save") up to its await
SaveHandler ==
  /\ pc = "handler"
  /\ req.route = SAVE
  /\ path' = Append(path, "validateSaveData")
  /\ LET validation == validateSaveData(req.prompt, req.response)
     IN  IF ~validation.isValid
         THEN /\ HandlerSend(ErrorResponse(400, "INVALID_SAVE_DATA",
                               <<validation.errors[1]>>))
              /\ pc' = "done"
              /\ UNCHANGED <<timers, outbound>>
         ELSE /\ outbound' = [kind |-> "db", state |-> "inflight",
                              prompt |-> validation.sanitizedPrompt,
                              response |-> validation.sanitizedResponse,
                              late |-> FALSE, result |-> NoResult,
                              calls |-> 1]
              /\ timers' = timers \cup
                   {Timer("handler", now + SAVE_TIMEOUT_MS)}
              /\ pc' = "awaiting"
              /\ UNCHANGED <<res, escaped>>
  /\ UNCHANGED <<rlVars, now, ticks, envVars, req>>

\* The completion call settles; the handler, if still awaiting, resumes.
CompletionSettles(up) ==
  /\ outbound.kind = "ai"
  /\ outbound.state = "inflight"
  /\ timers' = timers \ TimersOf("socket")
  /\ IF pc = "awaiting"
     THEN /\ LET aiResponse == chatCompletion(up)
             IN  HandlerSend(IF aiResponse.ok
                             THEN AskAiSuccess(aiResponse.value)
                             ELSE askAiFailure(aiResponse.message))
          /\ pc' = "done"
          /\ outbound' = [outbound EXCEPT !.state = "settled", !.result = up]
     ELSE /\ outbound' = [outbound EXCEPT !.state = "settled", !.late = TRUE,
                                          !.result = up]
          /\ UNCHANGED <<res, escaped, pc>>
  /\ UNCHANGED <<rlVars, now, ticks, envVars, req, path>>

\* The store write settles, and is issued once more if it failed.
StoreSettlesRetrying(result) ==
  /\ outbound.kind = "db"
  /\ outbound.state = "inflight"
  /\ IF ~result.ok /\ outbound.calls = 1
     THEN /\ outbound' = [outbound EXCEPT !.calls = @ + 1]
          /\ UNCHANGED <<res, escaped, pc>>
     ELSE IF pc = "awaiting"
     THEN /\ HandlerSend(IF result.ok THEN SaveSuccess(idToString(DocId))
                         ELSE saveFailure(result))
          /\ pc' = "done"
          /\ outbound' = [outbound EXCEPT !.state = "settled",
                                          !.result = result]
     ELSE /\ outbound' = [outbound EXCEPT !.state = "settled", !.late = TRUE,
                                          !.result = result]
          /\ UNCHANGED <<res, escaped, pc>>
  /\ UNCHANGED <<rlVars, now, ticks, envVars, req, timers, path>>

\* The store write settles; the handler, if still awaiting, resumes.
StoreSettles(result) ==
  /\ outbound.kind = "db"
  /\ outbound.state = "inflight"
  /\ IF pc = "awaiting"
     THEN /\ HandlerSend(IF result.ok THEN SaveSuccess(idToString(DocId))
                         ELSE saveFailure(result))
          /\ pc' = "done"
          /\ outbound' = [outbound EXCEPT !.state = "settled",
                                          !.result = result]
     ELSE /\ outbound' = [outbound EXCEPT !.state = "settled", !.late = TRUE,
                                          !.result = result]
          /\ UNCHANGED <<res, escaped, pc>>
  /\ UNCHANGED <<rlVars, now, ticks, envVars, req, timers, path>>

\* The timer of a route handler expires: the race is lost to it unless it
\* is already settled.
HandlerTimerFires ==
  \E t \in TimersOf("handler") :
    /\ IsNextTimer(t)
    /\ now' = IF t.at > now THEN t.at ELSE now
    /\ timers' = timers \ {t}
    /\ IF pc = "awaiting"
       THEN /\ HandlerSend(
                 IF req.route = ASK_AI
                 THEN askAiFailure(<<"AI request timeout">>)
                 ELSE saveFailure(SaveError("Error", 0,
                                            <<"Database save timeout">>)))
            /\ pc' = "done"
       ELSE UNCHANGED <<res, escaped, pc>>
    /\ path' = Append(path, "handlerTimer")
    /\ UNCHANGED <<rlVars, ticks, envVars, req, outbound>>

\* The timer of requestTimeout expires.
RequestTimerFires ==
  \E t \in TimersOf("request") :
    /\ IsNextTimer(t)
    /\ now' = IF t.at > now THEN t.at ELSE now
    /\ timers' = timers \ {t}
    /\ res' = IF res.sent = 0
              THEN ErrorResponse(408, "REQUEST_TIMEOUT", <<"Request timeout">>)
              ELSE res
    /\ path' = Append(path, "requestTimer")
    /\ UNCHANGED <<rlVars, ticks, envVars, req, outbound, escaped, pc>>

\* The idle timeout of the completion call's socket: req.destroy() and the
\* call fails with "Request timeout".
SocketTimerFires ==
  \E t \in TimersOf("socket") :
    /\ IsNextTimer(t)
    /\ now' = IF t.at > now THEN t.at ELSE now
    /\ timers' = timers \ {t}
    /\ IF pc = "awaiting"
       THEN /\ LET aiResponse == chatCompletion(SocketTimeout)
               IN  HandlerSend(askAiFailure(aiResponse.message))
            /\ pc' = "done"
            /\ outbound' = [outbound EXCEPT !.state = "settled",
                                            !.result = SocketTimeout]
       ELSE /\ outbound' = [outbound EXCEPT !.state = "settled",
                                            !.late = TRUE,
                                            !.result = SocketTimeout]
            /\ UNCHANGED <<res, escaped, pc>>
    /\ path' = Append(path, "socketTimer")
    /\ UNCHANGED <<rlVars, ticks, envVars, req>>

\* res.on("finish"): clearTimeout of the requestTimeout timer
Finish ==
  /\ LoopFree
  /\ res.sent = 1
  /\ TimersOf("request") # {}
  /\ timers' = timers \ TimersOf("request")
  /\ UNCHANGED <<rlVars, now, ticks, envVars, pc, req, res, outbound, escaped,
                 path>>

\* The server turns to the next request.
Complete ==
  /\ pc = "done"
  /\ pc' = "idle"
  /\ req' = NoRequest
  /\ res' = NoResponse
  /\ timers' = {}
  /\ outbound' = NoOutbound
  /\ path' = <<>>
  /\ UNCHANGED <<rlVars, now, ticks, envVars, escaped>>

Next ==
  \/ \E ip \in IPs, json \in BOOLEAN, prompt \in PromptSamples :
       Receive(ASK_AI, ip, json, prompt, Undefined)
  \/ \E ip \in IPs, json \in BOOLEAN, prompt \in PromptSamples,
        response \in ResponseSamples :
       Receive(SAVE, ip, json, prompt, response)
  \/ \E ip \in IPs : Receive(HEALTH, ip, FALSE, Undefined, Undefined)
  \/ \E ip \in IPs, route \in Unmatched :
       Receive(route, ip, FALSE, Undefined, Undefined)
  \/ \E ip \in IPs, route \in Routes, err \in BodyErrors :
       ReceiveMalformed(route, ip, err)
  \/ GlobalErrorHandler
  \/ RateLimiter
  \/ RequestTimeout
  \/ ValidateRequest
  \/ HealthHandler
  \/ NotFoundHandler
  \/ AskAiHandler
  \/ SaveHandler
  \/ \E up \in UpstreamResults : CompletionSettles(up)
  \/ \E result \in storeResultsOf(db) : StoreSettles(result)
  \/ HandlerTimerFires
  \/ RequestTimerFires
  \/ SocketTimerFires
  \/ Finish
  \/ Complete

Spec == Init /\ [][Next]_vars

(***************************************************************************)
(* Rate limiter properties                                                 *)
(***************************************************************************)
\* the latest limiter run served a request arriving less than WINDOW_SIZE
\* after the first request of its identity
InFirstWindow == rl.ip # "none" /\ rl.at - firstAt[rl.ip] < WINDOW_SIZE

\* C1: of an identity without history, the first 30 requests arriving within
\* 60 s of the first one are allowed, and every further request in that window
\* is answered 429 RATE_LIMIT_EXCEEDED with a reset time of at most 60 s.
C1_FirstThirtyAllowed ==
  InFirstWindow =>
    /\ nreq[rl.ip] <= MAX_REQUESTS => rl.passed
    /\ nreq[rl.ip] > MAX_REQUESTS =>
         /\ ~rl.passed
         /\ rl.status = 429
         /\ rl.code = "RATE_LIMIT_EXCEEDED"
         /\ rl.resetTime <= 60

\* the 31st request, later than the first but in its window, was rejected
C1_Witness ==
  /\ InFirstWindow
  /\ rl.ip = Flooder
  /\ nreq[Flooder] = MAX_REQUESTS + 1
  /\ rl.at > firstAt[Flooder]
  /\ ~rl.passed
  /\ rl.resetTime < 60

\* C2: when at least 60 s have passed since the previous request of an
\* identity, the limiter retains no timestamp of it and allows the request.
C2_ResetAfterWindow ==
  (rl.ip # "none" /\ rl.prevAt # -1 /\ rl.at - rl.prevAt >= WINDOW_SIZE) =>
    (rl.retained = 0 /\ rl.passed)

\* an identity whose previous request was rejected is allowed again exactly
\* 60 s later: all 30 stored timestamps were dropped
C2_Witness ==
  /\ rl.ip = Flooder
  /\ rl.prevAt # -1
  /\ rl.at - rl.prevAt = WINDOW_SIZE
  /\ nreq[Flooder] = MAX_REQUESTS + 2
  /\ rl.before = MAX_REQUESTS
  /\ rl.retained = 0
  /\ rl.passed

(***************************************************************************)
(* Pipeline properties                                                     *)
(***************************************************************************)
\* the limiter stored a timestamp for the request in hand
Counted == includes(path, "rateLimiter") /\ rl.passed

\* the request in hand passed validateRequest and the validation of its
\* route handler
Validated ==
  /\ includes(path, "validateRequest")
  /\ \/ includes(path, "validatePrompt")
        /\ validatePrompt(req.prompt).isValid
     \/ includes(path, "validateSaveData")
        /\ validateSaveData(req.prompt, req.response).isValid

\* the codes of the responses to a body that fails validation
BodyRejections ==
  {"MISSING_REQUIRED_FIELD", "INVALID_PROMPT", "INVALID_SAVE_DATA"}

\* C3: validation comes before the rate-limit check: a request answered 400
\* was not counted by the limiter, and 429 RATE_LIMIT_EXCEEDED is only sent
\* to a request that has passed validation.
C3_ValidationBeforeRateLimit ==
  /\ (res.sent = 1 /\ res.status = 400 /\ res.code \in BodyRejections)
       => ~Counted
  /\ (res.sent = 1 /\ res.code = "RATE_LIMIT_EXCEEDED") => Validated

\* C4: every request gets exactly one response and no exception leaves a
\* route handler, however the handler's end, its timer, the timer of
\* requestTimeout and a late end of the outbound operation interleave.
C4_OneResponseNoEscape ==
  /\ ~escaped
  /\ res.sent <= 1
  /\ pc = "done" => res.sent = 1
  /\ pc = "awaiting" => TimersOf("handler") # {}

\* the handler answered on its timer, then the timer of requestTimeout
\* expired, then the outbound operation ended
C4_Witness ==
  /\ pc = "done"
  /\ res.sent = 1
  /\ includes(path, "handlerTimer")
  /\ includes(path, "requestTimer")
  /\ outbound.state = "settled"
  /\ outbound.late

\* the completion call of the request in hand ended, in time, in an HTTP
\* response of the completion API
AnsweredInTime ==
  /\ outbound.kind = "ai"
  /\ outbound.state = "settled"
  /\ ~outbound.late
  /\ outbound.result.kind = "http"

\* the answer is a 2xx with JSON in it
Answered2xx ==
  /\ AnsweredInTime
  /\ outbound.result.parsable
  /\ outbound.result.status >= 200
  /\ outbound.result.status < 300

\* the first choice of the answer has non-empty content
HasContent ==
  /\ outbound.result.hasChoices
  /\ Len(outbound.result.choices) > 0
  /\ ~Falsy(outbound.result.choices[1])

\* C5: a 2xx answer whose first choice has non-empty content c, arriving
\* before the 25 s timer, gives 200 {response: c}; a 2xx answer without
\* choices or content gives an error response, never 200, and not the one of
\* a transport failure.
C5_CompletionSuccess ==
  Answered2xx =>
    IF HasContent
    THEN res = AskAiSuccess(outbound.result.choices[1])
    ELSE /\ res.sent = 1
         /\ res.status # 200
         /\ res.success = "false"
         /\ res.code # "AI_SERVICE_UNAVAILABLE"

C5_Witness ==
  /\ Answered2xx
  /\ HasContent
  /\ req.prompt = Str(<<32, 97, 98, 1, 99, 32>>)
  /\ outbound.prompt = Str(<<97, 98, 99>>)
  /\ res.status = 200
  /\ res.response = Str(<<52>>)

\* C6: an answer with status 401 gives 401 AI_AUTH_ERROR and one with status
\* 429 gives 429 AI_RATE_LIMIT, whatever the body.
C6_StatusDecides ==
  /\ (AnsweredInTime /\ outbound.result.status = 401) =>
       (res.status = 401 /\ res.code = "AI_AUTH_ERROR")
  /\ (AnsweredInTime /\ outbound.result.status = 429) =>
       (res.status = 429 /\ res.code = "AI_RATE_LIMIT")

\* C7: an answer with a status in 500..599 makes the client fail with
\* "service unavailable", and the response says the service is unavailable,
\* not AI_PROCESSING_ERROR.
C7_ServerErrorsUnavailable ==
  (AnsweredInTime /\ outbound.result.status \in 500 .. 599) =>
    /\ chatCompletion(outbound.result).message
         = <<"OpenRouter API service unavailable">>
    /\ res.code = "AI_SERVICE_UNAVAILABLE"

\* the completion call of the request in hand failed, in time, with a DNS or
\* connection-refused error
ConnectFailedInTime ==
  /\ outbound.kind = "ai"
  /\ outbound.state = "settled"
  /\ ~outbound.late
  /\ outbound.result.kind = "error"
  /\ \/ includes(outbound.result.message, "ENOTFOUND")
     \/ includes(outbound.result.message, "ECONNREFUSED")

\* the completion call of the request in hand had not ended when the timer
\* of the ask-ai route expired
CompletionTimedOut ==
  /\ req.route = ASK_AI
  /\ outbound.kind = "ai"
  /\ includes(path, "handlerTimer")
  /\ outbound.state = "inflight" \/ outbound.late

C9_TimeoutAborts ==
  (/\ res.sent = 1
   /\ includes(path, "handlerTimer")
   /\ res.code \in {"AI_SERVICE_UNAVAILABLE", "DATABASE_UNAVAILABLE"}) =>
    outbound.state # "inflight"

\* text that is not empty after trimming
NonEmptyTrimmed(v) == v.t = "string" /\ Len(trim(v.s)) > 0

\* the store write of the request in hand, if there is one, succeeded in time
StoreAvailable ==
  outbound.kind = "db" =>
    (outbound.state = "settled" /\ ~outbound.late /\ outbound.result = Saved)

\* C10: a save request whose prompt and response are not empty after
\* trimming, the prompt at most 10000 long, passes the limiter and an
\* available store, and is answered 201 with success and the document's id.
C10_SaveSucceeds ==
  (/\ pc = "done"
   /\ req.route = SAVE
   /\ req.json
   /\ Counted
   /\ NonEmptyTrimmed(req.prompt)
   /\ NonEmptyTrimmed(req.response)
   /\ Len(req.prompt.s) <= PROMPT_MAX
   /\ StoreAvailable) =>
    (res.status = 201 /\ res.success = "true" /\ res.id = idToString(DocId))

\* the errors of the store that are failures to reach it
ConnectivityErrors ==
  {"MongoNetworkError", "MongoNetworkTimeoutError",
   "MongoServerSelectionError", "MongooseError"}

\* the store write of the request in hand failed, in time
StoreFailedInTime ==
  /\ outbound.kind = "db"
  /\ outbound.state = "settled"
  /\ ~outbound.late
  /\ ~outbound.result.ok

\* the store write of the request in hand had not ended when the timer of
\* the save route expired
StoreTimedOut ==
  /\ req.route = SAVE
  /\ outbound.kind = "db"
  /\ includes(path, "handlerTimer")
  /\ outbound.state = "inflight" \/ outbound.late

\* C11: a store write that fails with a connectivity error, or has not
\* ended 10 s after its start, gives 503 DATABASE_UNAVAILABLE.
C11_StoreUnreachableIs503 ==
  (\/ StoreFailedInTime /\ outbound.result.name \in ConnectivityErrors
   \/ StoreTimedOut) =>
    (res.sent = 1 /\ res.status = 503 /\ res.code = "DATABASE_UNAVAILABLE")

\* C12: the response to a failed store write depends on the kind of the
\* failure only: 400 VALIDATION_ERROR for a schema validation failure, 503
\* DATABASE_UNAVAILABLE for a connectivity failure, 409 DUPLICATE_ENTRY for
\* a duplicate key, and none of these codes for a failure of another kind.
C12_StoreErrorsByKind ==
  StoreFailedInTime =>
    LET error == outbound.result
        kind == IF error.name = "ValidationError" THEN "VALIDATION_ERROR"
                ELSE IF error.name \in ConnectivityErrors
                THEN "DATABASE_UNAVAILABLE"
                ELSE IF error.code = 11000 THEN "DUPLICATE_ENTRY"
                ELSE "DATABASE_ERROR"
    IN  /\ res.code = kind
        /\ res.status = CASE kind = "VALIDATION_ERROR" -> 400
                           [] kind = "DATABASE_UNAVAILABLE" -> 503
                           [] kind = "DUPLICATE_ENTRY" -> 409
                           [] OTHER -> 500

\* the prompt of the request in hand is missing or fails validatePrompt
InvalidPrompt ==
  ~fieldIn("prompt", req) \/ ~validatePrompt(req.prompt).isValid

\* C13: an ask-ai request whose prompt is missing or fails validatePrompt
\* is answered 400; no completion client is constructed and no completion
\* call is made for it.
C13_InvalidPromptIs400 ==
  (pc = "done" /\ req.route = ASK_AI /\ InvalidPrompt) =>
    /\ res.status = 400
    /\ ~includes(path, "OpenRouterClient")
    /\ outbound.kind = "none"

(***************************************************************************)
(* Validation properties                                                   *)
(***************************************************************************)
HasControl(t) == \E i \in DOMAIN t : t[i] \in ControlChars

\* validatePrompt was called with a text free of control characters
PlainPromptValidated ==
  /\ call.fn = "validatePrompt"
  /\ call.done
  /\ call.prompt.t = "string"
  /\ ~HasControl(call.prompt.s)

\* C14: for a text p without control characters, validatePrompt(p).isValid
\* is true exactly when 3 <= trim(p).length <= 10000, and then the
\* sanitized value is trim(p).
C14_ValidIffTrimmedInRange ==
  PlainPromptValidated =>
    LET n == Len(trim(call.prompt.s))
    IN  /\ call.result.isValid <=> (3 <= n /\ n <= 10000)
        /\ call.result.isValid =>
             call.result.sanitized = Str(trim(call.prompt.s))

\* a padded text of 10002 characters is valid, sanitized to its 10000
\* letters
C14_Witness ==
  /\ PlainPromptValidated
  /\ Len(call.prompt.s) = PROMPT_MAX + 2
  /\ call.result.isValid
  /\ call.result.sanitized = Str(Repeat(97, PROMPT_MAX))

\* C15: a text of more than 10000 characters, counted before sanitization
\* and trimming, is not valid.
C15_RawLengthOverMaxInvalid ==
  (/\ call.fn = "validatePrompt"
   /\ call.done
   /\ call.prompt.t = "string"
   /\ Len(call.prompt.s) > 10000) => ~call.result.isValid

LeadingOrTrailingSpace(t) ==
  t # <<>> /\ (t[1] \in WhiteSpace \/ t[Len(t)] \in WhiteSpace)

\* C16: sanitizeString applied to its own result returns it unchanged; the
\* result has no control character and no white space at either end.
C16_SanitizeIdempotent ==
  (call.fn = "sanitizeString" /\ call.done /\ call.prompt.t = "string") =>
    /\ sanitizeString(Str(call.result.value)) = call.result.value
    /\ ~HasControl(call.result.value)
    /\ ~LeadingOrTrailingSpace(call.result.value)

\* a text with white space around a control character at its start
C16_Witness ==
  /\ call.fn = "sanitizeString"
  /\ call.done
  /\ call.prompt = Str(<<32, 1, 32, 97>>)
  /\ call.result.value = <<97>>

\* the error of the response argument of validateSaveData
ResponseError(response) ==
  IF response.t \in {"undefined", "null"} \/ response = Str(<<>>)
  THEN <<"Response is required">>
  ELSE IF response.t # "string" THEN <<"Response must be a string">>
  ELSE IF trim(removeControl(response.s)) = <<>>
  THEN <<"Response cannot be empty">>
  ELSE <<>>

\* C17: the errors of validateSaveData are those of validatePrompt followed
\* by the error of the response; both are there, the prompt's first, when
\* both arguments are invalid; isValid says the list is empty.
C17_SaveDataAccumulates ==
  (call.fn = "validateSaveData" /\ call.done) =>
    LET promptErrors == validatePrompt(call.prompt).errors
        responseErrors == ResponseError(call.response)
    IN  /\ call.result.errors = promptErrors \o responseErrors
        /\ (promptErrors # <<>> /\ responseErrors # <<>>) =>
             /\ Len(call.result.errors) = 2
             /\ call.result.errors[1] = promptErrors[1]
        /\ call.result.isValid <=> call.result.errors = <<>>

\* a prompt too short and a response empty after sanitization
C17_Witness ==
  /\ call.fn = "validateSaveData"
  /\ call.done
  /\ call.prompt = Str(<<97>>)
  /\ call.response = Str(<<1>>)
  /\ call.result.errors =
       <<"Prompt must be at least 3 characters long",
         "Response cannot be empty">>
  /\ ~call.result.isValid

(***************************************************************************)
(* Startup properties                                                      *)
(***************************************************************************)
\* connectDB returned the connection or failed
ConnectEnded == db.pc \in {"returned", "failed"}

\* what holds of a call of connectDB at every moment: no more calls of
\* mongoose.connect than retries, every delay as long as asked and taken
\* between two calls, none after the last, and a failure only after the
\* last attempt and with this message
ConnectBounded ==
  /\ db.attempts <= db.retries
  /\ db.waits <= db.attempts
  /\ db.waited <= db.waits * db.delay
  /\ db.pc \in {"connecting", "returned", "failed"} =>
       (db.waits = db.attempts - 1 /\ db.waited = db.waits * db.delay)
  /\ db.pc = "returned" => db.attempts = db.i + 1
  /\ db.pc = "failed" =>
       /\ db.attempts = db.retries
       /\ db.error = <<"Database connection failed">>
  /\ db.pc # "undefined"

ProcessExited == escaped \/ ~db.handled

\* every attempt of connectDB() at startup failed
DegradedMode == db.pc = "failed"

\* the response of the ask-ai route to the end of its completion call
AskAiOutcome(up) ==
  LET aiResponse == chatCompletion(up)
  IN  IF aiResponse.ok THEN AskAiSuccess(aiResponse.value)
      ELSE askAiFailure(aiResponse.message)

HandlerFailureCodes ==
  {"AI_AUTH_ERROR", "AI_RATE_LIMIT", "AI_SERVICE_UNAVAILABLE",
   "AI_CONFIG_ERROR", "AI_PROCESSING_ERROR", "VALIDATION_ERROR",
   "DATABASE_UNAVAILABLE", "DUPLICATE_ENTRY", "DATABASE_ERROR"}

\* the outbound operation of the request in hand ended well and in time
OutboundSucceeded ==
  /\ outbound.state = "settled"
  /\ ~outbound.late
  /\ outbound.kind = "ai" => chatCompletion(outbound.result).ok
  /\ outbound.kind = "db" => outbound.result.ok

\* an error was raised in the handler of the request in hand, after its
\* validation
HandlerFailed == pc = "done" /\ Validated /\ ~OutboundSucceeded

\* C20: whatever error is raised in the ask-ai or the save handler, the
\* handler sends one error response with a code of the taxonomy, and no
\* exception leaves it.
C20_FailureMappingTotal ==
  HandlerFailed =>
    /\ res.sent = 1
    /\ res.success = "false"
    /\ res.code \in HandlerFailureCodes
    /\ ~escaped
    /\ ~ProcessExited

\* an error of the store with no message and no code was answered 500
\* DATABASE_ERROR
C20_Witness ==
  /\ HandlerFailed
  /\ outbound.kind = "db"
  /\ ~outbound.late
  /\ outbound.result = SaveError("Error", 0, <<>>)
  /\ res = ErrorResponse(500, "DATABASE_ERROR",
                         <<"Failed to save prompt-response pair">>)

(***************************************************************************)
(* Unmatched routes and the missing credential                             *)
(***************************************************************************)
\* C21: a request no route matches, under /api or not, is answered 404
\* ROUTE_NOT_FOUND, whatever the state of the rate limiter.
C21_UnmatchedIs404 ==
  (pc = "done" /\ req.route \in Unmatched) =>
    res = ErrorResponse(404, "ROUTE_NOT_FOUND", <<"Route not found">>)

C23_SingleAttempt ==
  /\ outbound.calls <= 1
  /\ outbound.kind = "ai" => req.route = ASK_AI
  /\ outbound.kind = "db" => req.route = SAVE
  /\ outbound.state \in {"inflight", "settled"} => outbound.calls = 1

\* a store write that failed with a connectivity error, answered 503, was
\* issued once
C23_Witness ==
  /\ pc = "done"
  /\ req.route = SAVE
  /\ outbound.state = "settled"
  /\ ~outbound.late
  /\ outbound.result.name = "MongoNetworkError"
  /\ outbound.calls = 1
  /\ res.status = 503

\* C24: the prompt of an outbound completion call is sanitizeString of the
\* request's prompt, and the prompt and response of a document written to
\* the store are sanitizeString of the request's prompt and response.
C24_DownstreamSanitized ==
  /\ outbound.kind = "ai" =>
       outbound.prompt = Str(sanitizeString(req.prompt))
  /\ outbound.kind = "db" =>
       /\ outbound.prompt = Str(sanitizeString(req.prompt))
       /\ outbound.response = Str(sanitizeString(req.response))

\* a document written for a prompt and a response that both had white
\* space and a control character in them
C24_Witness ==
  /\ outbound.kind = "db"
  /\ outbound.state = "settled"
  /\ outbound.result = Saved
  /\ req.prompt = Str(<<32, 97, 98, 1, 99, 32>>)
  /\ req.response = Str(<<32, 114, 1, 32>>)
  /\ outbound.prompt = Str(<<97, 98, 99>>)
  /\ outbound.response = Str(<<114>>)

\* a save request whose body the route must refuse: a field is missing,
\* or validateSaveData finds the prompt or the response invalid
InvalidSaveBody ==
  \/ ~fieldIn("prompt", req)
  \/ ~fieldIn("response", req)
  \/ ~validateSaveData(req.prompt, req.response).isValid

\* C25: every completed POST /api/save request with an invalid body was
\* answered 400, and no document was constructed or written for it.
C25_InvalidSaveIs400 ==
  (pc = "done" /\ req.route = SAVE /\ InvalidSaveBody) =>
    /\ res.status = 400
    /\ outbound = NoOutbound

\* the same for the requests the rate limiter let through
C25_InvalidSaveIs400WhenCounted ==
  (pc = "done" /\ req.route = SAVE /\ InvalidSaveBody /\ Counted) =>
    /\ res.status = 400
    /\ outbound = NoOutbound

\* the codes of the responses written for a caught error, by the catch
\* blocks of the two routes and by globalErrorHandler
CaughtErrorCodes ==
  HandlerFailureCodes \cup {"JSON_PARSE_ERROR", "INTERNAL_ERROR"}

\* the one body of each of these codes
ErrorBodyOf(code) ==
  CASE code = "AI_AUTH_ERROR" ->
         ErrorResponse(401, code, <<"AI service authentication failed">>)
    [] code = "AI_RATE_LIMIT" ->
         ErrorResponse(429, code,
           <<"AI service rate limit exceeded. Please try again later">>)
    [] code = "AI_SERVICE_UNAVAILABLE" ->
         ErrorResponse(503, code, <<"AI service temporarily unavailable">>)
    [] code = "AI_CONFIG_ERROR" ->
         ErrorResponse(500, code, <<"AI service configuration error">>)
    [] code = "AI_PROCESSING_ERROR" ->
         ErrorResponse(500, code, <<"Failed to process AI request">>)
    [] code = "VALIDATION_ERROR" ->
         ErrorResponse(400, code, <<"Validation failed">>)
    [] code = "DATABASE_UNAVAILABLE" ->
         ErrorResponse(503, code, <<"Database temporarily unavailable">>)
    [] code = "DUPLICATE_ENTRY" ->
         ErrorResponse(409, code, <<"Duplicate entry detected">>)
    [] code = "DATABASE_ERROR" ->
         ErrorResponse(500, code, <<"Failed to save prompt-response pair">>)
    [] code = "JSON_PARSE_ERROR" ->
         ErrorResponse(400, code, <<"Invalid JSON format">>)
    [] code = "INTERNAL_ERROR" ->
         ErrorResponse(500, code, <<"Internal server error">>)

\* C26: outside development mode no response carries details, and the
\* body of a response written for a caught error is the one body of its
\* code: the same whatever the credential and the text of the error.
C26_ErrorBodiesFixed ==
  nodeEnv # "development" =>
    /\ res.details = NoDetails
    /\ (res.sent = 1 /\ res.code \in CaughtErrorCodes) =>
         res = ErrorBodyOf(res.code)

\* outside development mode, a save answered for a schema validation
\* failure whose message quotes the document
C26_Witness ==
  /\ nodeEnv = "production"
  /\ pc = "done"
  /\ req.route = SAVE
  /\ outbound.state = "settled"
  /\ ~outbound.late
  /\ outbound.result.name = "ValidationError"
  /\ outbound.result.message # <<>>
  /\ res = ErrorResponse(400, "VALIDATION_ERROR", <<"Validation failed">>)

\* in development mode the same failure is answered with the message of the
\* error as details
DevelopmentDetails ==
  /\ nodeEnv = "development"
  /\ pc = "done"
  /\ res.code = "VALIDATION_ERROR"
  /\ res.details = Details(outbound.result.message)

\* an upstream answer quoting the credential, answered with the fixed body
CredentialEchoed ==
  /\ pc = "done"
  /\ outbound.kind = "ai"
  /\ outbound.state = "settled"
  /\ ~outbound.late
  /\ includes(outbound.result.errorMessage, "sk-or-v1-0123")
  /\ res = ErrorBodyOf("AI_PROCESSING_ERROR")

\* a body express.json refused, answered by globalErrorHandler
MalformedAnswered ==
  /\ pc = "done"
  /\ req.bodyError.name = "SyntaxError"
  /\ res.code = "JSON_PARSE_ERROR"

\* The times of the accepted requests of identity ip are in non-decreasing
\* order, so an interval holds 31 accepted requests exactly if it holds 31
\* consecutive ones. spanOf is the time from the i-th accepted request to
\* the 30th after it.
AcceptedInOrder(ip) ==
  \A i \in 1 .. Len(accepted[ip]) - 1 : accepted[ip][i] <= accepted[ip][i + 1]

spanOf(ip, i) == accepted[ip][i + MAX_REQUESTS] - accepted[ip][i]

\* what is stored for identity ip: at most 30 timestamps in non-decreasing
\* order
StoredBounded(ip) ==
  LET stored == ipRequestsOf(requests, ip)
  IN  /\ Len(stored) <= MAX_REQUESTS
      /\ \A i \in 1 .. Len(stored) - 1 : stored[i] <= stored[i + 1]

\* after the latest access, the stored timestamps of its identity are
\* all later than its window start
StoredRecent ==
  rl.ip # "none" =>
    \A i \in DOMAIN requests[rl.ip] :
      requests[rl.ip][i] > rl.at - WINDOW_SIZE

\* C27 (amended): of every identity, at most 30 requests are accepted at
\* clock values in any window (t - 60000, t], that is, 31 accepted requests
\* never fit in a window open at one end; what is stored for it has at most
\* 30 entries in non-decreasing order and, after an access, only timestamps
\* later than now - 60000.
C27_SlidingWindowHalfOpen ==
  /\ \A ip \in IPs :
       /\ AcceptedInOrder(ip)
       /\ \A i \in 1 .. Len(accepted[ip]) - MAX_REQUESTS :
            spanOf(ip, i) >= WINDOW_SIZE
       /\ StoredBounded(ip)
  /\ StoredRecent

\* C27: the same with the windows [t - 60000, t], the intervals of length
\* 60 seconds with both ends: 31 accepted requests never fit in one.
C27_SlidingWindowAnyInterval ==
  /\ \A ip \in IPs :
       /\ AcceptedInOrder(ip)
       /\ \A i \in 1 .. Len(accepted[ip]) - MAX_REQUESTS :
            spanOf(ip, i) > WINDOW_SIZE
       /\ StoredBounded(ip)
  /\ StoredRecent

\* 30 requests accepted, the 31st refused, and the next one accepted exactly
\* 60 s after the first
C27_Witness ==
  /\ Len(accepted[Flooder]) = MAX_REQUESTS + 1
  /\ accepted[Flooder][MAX_REQUESTS + 1] - accepted[Flooder][1] = WINDOW_SIZE
  /\ nreq[Flooder] = MAX_REQUESTS + 2
  /\ requests[Flooder] = <<now>>

\* the step of the rate limiter rejecting the request in hand
RejectionStep == pc = "rateLimiter" /\ pc' = "done"

\* what a rejection leaves of the limiter's state: the sequence of the
\* identity is its unexpired entries, with the same oldest entry and
\* nothing appended; no other sequence changes
RejectionFrame ==
  LET ip == req.ip
      recentRequests ==
        recentRequestsOf(ipRequestsOf(requests, ip), now - WINDOW_SIZE)
  IN  /\ DOMAIN requests' = DOMAIN requests \cup {ip}
      /\ requests'[ip] = recentRequests
      /\ requests'[ip][1] = requests[ip][1]
      /\ \A other \in DOMAIN requests \ {ip} :
           requests'[other] = requests[other]
      /\ accepted' = accepted
      /\ timers' = {}
      /\ outbound' = NoOutbound

\* a request answered by the rate limiter went through nothing else
RejectedEarly ==
  (pc = "done" /\ res.code = "RATE_LIMIT_EXCEEDED") =>
    /\ res.status = 429
    /\ path = <<"rateLimiter">>
    /\ timers = {}
    /\ outbound = NoOutbound

\* C28: a request the rate limiter rejects is not recorded: its identity's
\* sequence is only filtered, the oldest entry (which decides when the
\* identity is allowed again) stays, the other identities' sequences are
\* unchanged, and the request reaches no validation, handler, outbound
\* call or store write.
C28_RejectedNotRecorded ==
  /\ []RejectedEarly
  /\ [][RejectionStep => RejectionFrame]_vars

\* the flooding identity rejected for the second time, another identity
\* having a sequence of its own
C28_Witness ==
  /\ pc = "done"
  /\ req.ip = Flooder
  /\ res.code = "RATE_LIMIT_EXCEEDED"
  /\ nreq[Flooder] = MAX_REQUESTS + 2
  /\ Len(requests[Flooder]) = MAX_REQUESTS
  /\ \E other \in DOMAIN requests \ {Flooder} : requests[other] # <<>>
  /\ path = <<"rateLimiter">>

\* the rejections of the identity of the latest limiter run, made since
\* its latest accepted request, whose advertised reset time had passed
\* when the request of that run arrived
Elapsed == {x \in rl.pending : rl.at - x.at >= x.r * 1000}

ShortReset ==
  /\ rl.ip = Flooder
  /\ ~rl.passed
  /\ rl.resetTime = 1
  /\ rl.pending # {}

\* C30: every pair sent to POST /api/save is a prompt and the response
\* produced for that prompt, not one left over from before a failed Run
\* Flow.
C30_SavedPairMatches ==
  savedPair.sent =>
    /\ savedPair.prompt = savedPair.producedFor
    /\ ~savedPair.leftOver

\* the pair sent has the response of another prompt
C30_OtherPrompt ==
  savedPair.sent => savedPair.prompt = savedPair.producedFor

\* the pair sent has a response left over from before a failed Run Flow
C30_LeftOver ==
  savedPair.sent => ~savedPair.leftOver

====
